---- MODULE Spec2Model ----
(***************************************************************************)
(* A model of ploomber's NotebookSource (sources/NotebookSource.py): the   *)
(* module-level resolution and validation functions as operators, and the  *)
(* NotebookSource facade (caches, hot reload, render) as a state machine.  *)
(*                                                                         *)
(* Representation of Python values:                                        *)
(*   - str                : a TLA+ string; the absent str is None          *)
(*   - dict / object      : a record; a key that is missing is a field     *)
(*                          that is not in DOMAIN; the absent object is    *)
(*                          NoneObj                                        *)
(*   - list               : a sequence                                     *)
(*   - text that is built by concatenation (error messages, cell sources   *)
(*     joined by a newline) : a sequence of pieces                         *)
(*   - a call's outcome   : [kind |-> "return", value |-> v] or            *)
(*                          [kind |-> "raise", exc |-> "<ExceptionName>"]  *)
(***************************************************************************)
EXTENDS Integers, Sequences, FiniteSets, TLC

VARIABLES
    args,                \* inputs of a module-level function call
    ret,                 \* outcome of that call
    nb_after,            \* the document passed to the call, after the call
    file,                \* content of the backing file (hot reload re-reads it)
    phase,               \* "new" | "ready" (constructed) | "failed" (constructor raised)
    _path,               \* NotebookSource._path (None when loaded from a string)
    _primitive,          \* NotebookSource._primitive
    _ext_in,             \* NotebookSource._ext_in
    _language,           \* NotebookSource._language
    _kernelspec_name,    \* NotebookSource._kernelspec_name
    _hot_reload,         \* NotebookSource._hot_reload
    static_analysis,     \* NotebookSource.static_analysis
    _params,             \* NotebookSource._params
    _nb_str_unrendered,  \* the four caches
    _nb_obj_unrendered,
    _nb_str_rendered,
    _nb_obj_rendered,
    last,                \* the last facade operation and its outcome
    hist                 \* history: what the claims need to remember

vars == <<args, ret, nb_after, file, phase, _path, _primitive, _ext_in, _language,
          _kernelspec_name, _hot_reload, static_analysis, _params,
          _nb_str_unrendered, _nb_obj_unrendered, _nb_str_rendered,
          _nb_obj_rendered, last, hist>>

facadeVars == <<file, phase, _path, _primitive, _ext_in, _language,
          _kernelspec_name, _hot_reload, static_analysis, _params,
          _nb_str_unrendered, _nb_obj_unrendered, _nb_str_rendered,
          _nb_obj_rendered, last, hist>>

callVars == <<args, ret, nb_after>>

-----------------------------------------------------------------------------
(* Bounds *)

\* longest document (number of cells) the input sets contain
MaxCells == 2

-----------------------------------------------------------------------------
(* Python values *)

None == "None"
NoneObj == [py |-> "None"]
NoneIdx == -1

Return(v) == [kind |-> "return", value |-> v]
Raise(e) == [kind |-> "raise", exc |-> e]
RaiseMsg(e, m) == [kind |-> "raise", exc |-> e, message |-> m]
Raised(r) == r.kind = "raise"

\* sequences over S of length 0..n
SeqsUpTo(S, n) == UNION {[1..k -> S] : k \in 0..n}

-----------------------------------------------------------------------------
(* Cell sources.  A source is a piece of text; what the external parsers   *)
(* (ast.parse, parso, pyflakes) make of each text is tabulated here.       *)

SrcProduct == "product = None"
SrcAProduct == "a = None; product = None"
SrcOne == "1 + 1"
SrcArrow == "x <- 1"
SrcBroken == "def ("
SrcImport == "import os"

Sources == {SrcProduct, SrcAProduct, SrcOne, SrcArrow, SrcBroken, SrcImport}

\* ast.parse(text) does not raise SyntaxError ("x <- 1" is the valid
\* Python expression x < -1)
AstParses(text) == text # SrcBroken

\* '<-' in text
HasArrow(text) == text = SrcArrow

\* parso.parse(text).get_used_names().keys()
UsedNames(text) ==
    CASE text = SrcProduct -> {"product"}
      [] text = SrcAProduct -> {"a", "product"}
      [] text = SrcArrow -> {"x"}
      [] text = SrcImport -> {"os"}
      [] OTHER -> {}

\* pyflakes on one text that parses: the warning it prints, if any
FlakesWarning(text) ==
    CASE text = SrcArrow -> <<"undefined name 'x'">>
      [] text = SrcImport -> <<"'os' imported but unused">>
      [] OTHER -> <<>>

-----------------------------------------------------------------------------
(* Documents *)

\* a cell's metadata with no 'tags' key
NoTagsMeta == [lines_to_next_cell |-> 1]

Cell(source, tags) == [source |-> source, metadata |-> [tags |-> tags]]
UntaggedCell(source) == [source |-> source, metadata |-> NoTagsMeta]

\* the document metadata jupytext produces for a script with no header
PlainMeta == [jupytext |-> "text_representation"]

KernelspecFull(name, display, language) ==
    [name |-> name, display_name |-> display, language |-> language]

WithKernelspec(meta, ks) == ("kernelspec" :> ks) @@ meta

Notebook(cells, meta) == [cells |-> cells, metadata |-> meta]

\* c['metadata'].get('tags')
HasTags(c) == "tags" \in DOMAIN c.metadata

\* the installed kernel catalog (jupyter_client.kernelspec)
Catalog ==
    [python3 |-> [display_name |-> "Python 3", language |-> "python"],
     ir |-> [display_name |-> "R", language |-> "R"]]

-----------------------------------------------------------------------------
(* determine_language *)

\* extension.startswith('.')
StartsWithDot(extension) ==
    extension \in {".", ".py", ".r", ".R", ".Rmd", ".rmd", ".ipynb"}

\* extension[1:]
DropFirst(extension) ==
    CASE extension = ".py" -> "py"
      [] extension = ".r" -> "r"
      [] extension = ".R" -> "R"
      [] extension = ".Rmd" -> "Rmd"
      [] extension = ".rmd" -> "rmd"
      [] extension = ".ipynb" -> "ipynb"
      [] extension = "py" -> "y"
      [] extension = "r" -> ""
      [] extension = "R" -> ""
      [] extension = "Rmd" -> "md"
      [] extension = "rmd" -> "md"
      [] extension = "ipynb" -> "pynb"
      [] OTHER -> ""

determine_language(extension) ==
    LET ext == IF StartsWithDot(extension) THEN DropFirst(extension) ELSE extension
    IN CASE ext = "py" -> "python"
         [] ext \in {"r", "R", "Rmd", "rmd"} -> "r"
         [] OTHER -> None

-----------------------------------------------------------------------------
(* find_cell_with_tag *)

InSeq(x, s) == \E k \in 1..Len(s) : s[k] = x

\* "if cell_tags: if tag in cell_tags"
CellMatches(c, tag) ==
    /\ HasTags(c)
    /\ c.metadata.tags # <<>>
    /\ InSeq(tag, c.metadata.tags)

\* the loop "for i, c in enumerate(nb['cells'])" from position i (1-based)
RECURSIVE ScanFrom(_, _, _)
ScanFrom(cells, tag, i) ==
    IF i > Len(cells) THEN <<NoneObj, NoneIdx>>
    ELSE IF CellMatches(cells[i], tag) THEN <<cells[i], i - 1>>
    ELSE ScanFrom(cells, tag, i + 1)

\* the same loop run from the last cell to the first
RECURSIVE ScanBack(_, _, _)
ScanBack(cells, tag, i) ==
    IF i < 1 THEN <<NoneObj, NoneIdx>>
    ELSE IF CellMatches(cells[i], tag) THEN <<cells[i], i - 1>>
    ELSE ScanBack(cells, tag, i - 1)

\* mutant: returns the last matching cell
find_cell_with_tag_last(nb, tag) == ScanBack(nb.cells, tag, Len(nb.cells))

\* the (cell, index) pair; the index is Python's, from 0
find_cell_with_tag(nb, tag) == ScanFrom(nb.cells, tag, 1)

-----------------------------------------------------------------------------
(* is_python, determine_kernel_name, ensure_kernelspec *)

\* nb.metadata.kernelspec.<attr> does not raise AttributeError
HasKernelspecAttr(nb, attr) ==
    /\ "kernelspec" \in DOMAIN nb.metadata
    /\ attr \in DOMAIN nb.metadata.kernelspec

\* '\n'.join([c.source for c in nb.cells]), as the sequence of the joined texts
code_str(nb) == [i \in 1..Len(nb.cells) |-> nb.cells[i].source]

\* ast.parse of the joined text
JoinedParses(texts) == \A i \in 1..Len(texts) : AstParses(texts[i])

\* '<-' in the joined text
JoinedHasArrow(texts) == \E i \in 1..Len(texts) : HasArrow(texts[i])

\* mutant: a successful parse is enough
is_python_parse_only(nb) ==
    IF HasKernelspecAttr(nb, "language")
    THEN nb.metadata.kernelspec.language = "python"
    ELSE JoinedParses(code_str(nb))

is_python(nb) ==
    IF HasKernelspecAttr(nb, "language")
    THEN nb.metadata.kernelspec.language = "python"
    ELSE /\ JoinedParses(code_str(nb))
         /\ ~JoinedHasArrow(code_str(nb))

\* "if ext:"
Truthy(s) == s # None /\ s # ""

lang2kernel(language) ==
    CASE language = "python" -> "python3"
      [] language = "r" -> "ir"
      [] OTHER -> None

Resolved(name, via) == [name |-> name, via |-> via]

\* mutant: the document metadata is consulted before the explicit name
determine_kernel_name_meta_first(nb, kernelspec_name, ext, language) ==
    IF HasKernelspecAttr(nb, "name")
    THEN Resolved(nb.metadata.kernelspec.name, "metadata")
    ELSE IF kernelspec_name # None THEN Resolved(kernelspec_name, "explicit")
    ELSE LET lang == IF Truthy(ext) THEN determine_language(ext) ELSE language
         IN IF lang2kernel(lang) # None THEN Resolved(lang2kernel(lang), "language")
            ELSE Resolved(IF is_python(nb) THEN "python3" ELSE None, "heuristic")

\* determine_kernel_name, with the step that gave the answer:
\* "explicit" (l.543), "metadata" (l.547), "language" (l.553-559),
\* "heuristic" (l.562-567, the only step that calls is_python)
determine_kernel_name_via(nb, kernelspec_name, ext, language) ==
    IF kernelspec_name # None THEN Resolved(kernelspec_name, "explicit")
    ELSE IF HasKernelspecAttr(nb, "name")
    THEN Resolved(nb.metadata.kernelspec.name, "metadata")
    ELSE LET lang == IF Truthy(ext) THEN determine_language(ext) ELSE language
         IN IF lang2kernel(lang) # None THEN Resolved(lang2kernel(lang), "language")
            ELSE Resolved(IF is_python(nb) THEN "python3" ELSE None, "heuristic")

determine_kernel_name(nb, kernelspec_name, ext, language) ==
    determine_kernel_name_via(nb, kernelspec_name, ext, language).name

\* jupyter_client.kernelspec.get_kernel_spec(kernel_name): the catalog entry,
\* or NoSuchKernel raised
get_kernel_spec(kernel_name) ==
    IF kernel_name \in DOMAIN Catalog THEN Return(Catalog[kernel_name])
    ELSE Raise("NoSuchKernel")

\* mutant: kernelspec metadata the document already carries is kept
EnsureWithSpec_keep_existing(nb, kernel_name, got) ==
    IF Raised(got) THEN [out |-> got, nb |-> nb]
    ELSE IF "kernelspec" \in DOMAIN nb.metadata THEN [out |-> Return(NoneObj), nb |-> nb]
    ELSE [out |-> Return(NoneObj),
          nb |-> [nb EXCEPT !.metadata = WithKernelspec(@,
                    KernelspecFull(kernel_name, got.value.display_name,
                                   got.value.language))]]

\* ensure_kernelspec, from the catalog's answer on: NoSuchKernel is not
\* caught; otherwise nb.metadata.kernelspec is written
EnsureWithSpec(nb, kernel_name, got) ==
    IF Raised(got) THEN [out |-> got, nb |-> nb]
    ELSE [out |-> Return(NoneObj),
          nb |-> [nb EXCEPT !.metadata = WithKernelspec(@,
                    KernelspecFull(kernel_name, got.value.display_name,
                                   got.value.language))]]

\* ensure_kernelspec, from the resolved name on
EnsureWithName(nb, kernel_name) ==
    IF kernel_name = None
    THEN [out |-> Raise("SourceInitializationError"), nb |-> nb]
    ELSE EnsureWithSpec(nb, kernel_name, get_kernel_spec(kernel_name))

\* ensure_kernelspec: [out |-> outcome, nb |-> the document after the call]
ensure_kernelspec(nb, kernelspec_name, ext, language) ==
    EnsureWithName(nb, determine_kernel_name(nb, kernelspec_name, ext, language))

-----------------------------------------------------------------------------
(* compare_params, check_source, check_notebook *)

\* pieces of a text built by concatenation and str.format
Str(s) == [str |-> s]
Fmt(names) == [names |-> names]

\* compare_params: the returned text, and the names warned about
\* (warnings.warn is a side channel, {} when nothing is warned)
compare_params(params_source, params) ==
    LET declared == UsedNames(params_source)
        missing == declared \ DOMAIN params
        extra == DOMAIN params \ declared
    IN [text |-> IF extra # {}
                 THEN <<Str("Passed non-declared parameters: "), Fmt(extra)>>
                 ELSE <<>>,
        warned |-> missing]

RECURSIVE FlakesWarnings(_)
FlakesWarnings(texts) ==
    IF texts = <<>> THEN <<>>
    ELSE FlakesWarning(Head(texts)) \o FlakesWarnings(Tail(texts))

\* check_source: pyflakes on the joined cell sources; a text that does not
\* parse is reported on the error stream and nothing else is reported
check_source(nb, filename) ==
    LET source == code_str(nb)
    IN IF JoinedParses(source)
       THEN [warnings |-> FlakesWarnings(source), errors |-> <<>>]
       ELSE [warnings |-> <<>>, errors |-> <<"invalid syntax">>]

StrAll(lines) == [i \in 1..Len(lines) |-> Str(lines[i])]

\* mutant: the text of compare_params is dropped when the checker is silent
check_notebook_drop_extra(nb, params, filename) ==
    LET params_cell == find_cell_with_tag(nb, "parameters")[1]
    IN IF params_cell = NoneObj
       THEN [out |-> Raise("TypeError"), warned |-> {}]
       ELSE LET res_params == compare_params(params_cell.source, params)
                res == check_source(nb, filename)
                m0 == <<Str("\n")>>
                m2 == IF res.warnings # <<>>
                      THEN m0 \o <<Str("pyflakes warnings:\n")>> \o StrAll(res.warnings)
                      ELSE m0
                m3 == IF res.errors # <<>>
                      THEN m2 \o <<Str("pyflakes errors:\n")>> \o StrAll(res.errors)
                      ELSE m2
            IN [out |-> IF m3 # <<Str("\n")>> THEN RaiseMsg("RenderError", m3)
                        ELSE Return(TRUE),
                warned |-> res_params.warned]

\* check_notebook: the outcome and the names warned about.  With no cell
\* tagged 'parameters', params_cell is None and params_cell['source']
\* raises TypeError
check_notebook(nb, params, filename) ==
    LET params_cell == find_cell_with_tag(nb, "parameters")[1]
    IN IF params_cell = NoneObj
       THEN [out |-> Raise("TypeError"), warned |-> {}]
       ELSE LET res_params == compare_params(params_cell.source, params)
                res == check_source(nb, filename)
                m0 == <<Str("\n")>>
                m1 == m0 \o res_params.text
                m2 == IF res.warnings # <<>>
                      THEN m1 \o <<Str("pyflakes warnings:\n")>> \o StrAll(res.warnings)
                      ELSE m1
                m3 == IF res.errors # <<>>
                      THEN m2 \o <<Str("pyflakes errors:\n")>> \o StrAll(res.errors)
                      ELSE m2
            IN [out |-> IF m3 # <<Str("\n")>> THEN RaiseMsg("RenderError", m3)
                        ELSE Return(TRUE),
                warned |-> res_params.warned]

-----------------------------------------------------------------------------
(* External collaborators of the facade: jupytext, nbformat, papermill     *)

\* a dict with no keys
EmptyDict == [k \in {} |-> None]

\* the text of a script or notebook file that holds document nb
RawText(nb) == [text |-> nb]

\* jupytext.reads(source, fmt=ext)
jupytext_reads(source, ext) == source.text

\* nbformat.writes(nb): the JSON text of a document
nbformat_writes(nb) == [json |-> nb]

\* nbformat.reads(nb_str, as_version=NO_CONVERT)
nbformat_reads(nb_str) == nb_str.json

SrcInjected == "# Parameters"

\* the cell papermill builds from the parameters
InjectedCell(params) ==
    [source |-> SrcInjected,
     metadata |-> [tags |-> <<"injected-parameters">>],
     parameters |-> params]

\* papermill.parameterize_notebook(nb, params): a copy of nb with the
\* injected cell placed after the cell tagged 'parameters' (first in the
\* document when there is none) and the parameters recorded in
\* metadata.papermill
parameterize_notebook(nb, params) ==
    LET i == find_cell_with_tag(nb, "parameters")[2]
        before == IF i = NoneIdx THEN <<>> ELSE SubSeq(nb.cells, 1, i + 1)
        after == IF i = NoneIdx THEN nb.cells ELSE SubSeq(nb.cells, i + 2, Len(nb.cells))
    IN [cells |-> before \o <<InjectedCell(params)>> \o after,
        metadata |-> ("papermill" :> [parameters |-> params]) @@ nb.metadata]

\* product.to_json_serializable()
to_json_serializable(product) == product.path

\* json_serializable_params: params.to_dict() with 'product' and every
\* value of a non-empty 'upstream' converted
json_serializable_params(params) ==
    [k \in DOMAIN params |->
        IF k = "product" THEN to_json_serializable(params[k])
        ELSE IF k = "upstream" /\ DOMAIN params[k] # {}
        THEN [u \in DOMAIN params[k] |-> to_json_serializable(params[k][u])]
        ELSE params[k]]

\* str.lower() on the language names in use
Lower(str) ==
    CASE str = "R" -> "r"
      [] str = "Python" -> "python"
      [] OTHER -> str

\* Path.suffix
Suffix(path) ==
    CASE path = "nb.py" -> ".py"
      [] path = "nb.ipynb" -> ".ipynb"
      [] OTHER -> ""

-----------------------------------------------------------------------------
(* NotebookSource.  Each method is an operator from the object's fields     *)
(* (self) and the backing file's text when the call reads it (f) to the     *)
(* fields after the call and the call's outcome.  A call that renders reads *)
(* the file up to twice, in _render (l.158) and in the language property    *)
(* during validation (l.309); g is the file's text at the second read.      *)

Self ==
    [_path |-> _path, _primitive |-> _primitive, _ext_in |-> _ext_in,
     _language |-> _language, _kernelspec_name |-> _kernelspec_name,
     _hot_reload |-> _hot_reload, static_analysis |-> static_analysis,
     _params |-> _params,
     _nb_str_unrendered |-> _nb_str_unrendered,
     _nb_obj_unrendered |-> _nb_obj_unrendered,
     _nb_str_rendered |-> _nb_str_rendered,
     _nb_obj_rendered |-> _nb_obj_rendered]

Blank ==
    [_path |-> None, _primitive |-> NoneObj, _ext_in |-> None,
     _language |-> None, _kernelspec_name |-> None,
     _hot_reload |-> FALSE, static_analysis |-> FALSE,
     _params |-> NoneObj,
     _nb_str_unrendered |-> NoneObj, _nb_obj_unrendered |-> NoneObj,
     _nb_str_rendered |-> NoneObj, _nb_obj_rendered |-> NoneObj]

Outcome(self, out) == [self |-> self, out |-> out]

\* the primitive property: the object after the access
primitive(self, f) ==
    IF self._hot_reload THEN [self EXCEPT !._primitive = f] ELSE self

\* the primitive property: "return self._primitive"
PrimitiveRead(s1) == Outcome(s1, Return(s1._primitive))

\* _to_nb_obj: returns nb once ensure_kernelspec has returned
ToNbObjResult(r) == IF Raised(r.out) THEN r.out ELSE Return(r.nb)

\* _to_nb_obj
_to_nb_obj(source, language, ext, kernelspec_name) ==
    ToNbObjResult(ensure_kernelspec(jupytext_reads(source, ext), kernelspec_name,
                                    ext, language))

\* _read_nb_str_unrendered: the two assignments, which an exception in
\* _to_nb_obj skips
StoreUnrendered(s1, got) ==
    IF Raised(got) THEN Outcome(s1, got)
    ELSE Outcome([s1 EXCEPT !._nb_obj_unrendered = got.value,
                            !._nb_str_unrendered = nbformat_writes(got.value)],
                 Return(got.value))

\* _read_nb_str_unrendered: the branch that re-evaluates the representation;
\* s1 is the object after self.primitive was read
ReadFresh(s1) ==
    StoreUnrendered(s1, _to_nb_obj(s1._primitive, s1._language, s1._ext_in,
                                   s1._kernelspec_name))

\* mutant: the cached representation is used whenever there is one
_read_nb_str_unrendered_cached(self, f) ==
    IF self._nb_str_unrendered = NoneObj
    THEN ReadFresh(primitive(self, f))
    ELSE Outcome(self, Return(self._nb_obj_unrendered))

\* _read_nb_str_unrendered; the outcome's value is the document object
_read_nb_str_unrendered(self, f) ==
    IF self._nb_str_unrendered = NoneObj \/ self._hot_reload
    THEN ReadFresh(primitive(self, f))
    ELSE Outcome(self, Return(self._nb_obj_unrendered))

\* the language property, after the unrendered read r
LanguageFromMetadata(r) ==
    IF Raised(r.out) THEN r
    ELSE IF HasKernelspecAttr(r.self._nb_obj_unrendered, "language")
    THEN Outcome(r.self,
                 Return(Lower(r.self._nb_obj_unrendered.metadata.kernelspec.language)))
    ELSE Outcome(r.self, Return(None))

\* the language property
language(self, f) ==
    IF self._language = None
    THEN LanguageFromMetadata(_read_nb_str_unrendered(self, f))
    ELSE Outcome(self, Return(self._language))

\* _post_render_validation: check_notebook returns or raises
CheckOutcome(c) == IF Raised(c.out) THEN c.out ELSE Return(NoneObj)

\* _post_render_validation, once self.language (l) is known
ValidateForLanguage(l, params, nb_str) ==
    IF Raised(l.out) THEN l
    ELSE IF l.out.value = "python"
    THEN Outcome(l.self,
                 CheckOutcome(check_notebook(nbformat_reads(nb_str), params, "notebook")))
    ELSE Outcome(l.self, Raise("NotImplementedError"))

\* _post_render_validation
_post_render_validation(self, f, params, nb_str) ==
    IF self.static_analysis
    THEN ValidateForLanguage(language(self, f), params, nb_str)
    ELSE Outcome(self, Return(NoneObj))

\* "if not hasattr(cell.metadata, 'tags'): cell.metadata['tags'] = []"
WithTags(c) ==
    IF HasTags(c) THEN c
    ELSE [c EXCEPT !.metadata = ("tags" :> <<>>) @@ c.metadata]

\* the loop over nb.cells and "nb.metadata['papermill'] = dict()"
Prepared(nb) ==
    [cells |-> [i \in 1..Len(nb.cells) |-> WithTags(nb.cells[i])],
     metadata |-> ("papermill" :> EmptyDict) @@ nb.metadata]

\* _render, l.174: validation of the text just stored; g is the file's
\* text when the language property reads it
ValidateRendered(s2, g) ==
    _post_render_validation(s2, g, s2._params, s2._nb_str_rendered)

\* _render, l.171-173.  nb is the object _nb_obj_unrendered refers to, so
\* preparing it changed _nb_obj_unrendered too; parameterize_notebook works
\* on a copy; _nb_str_rendered is assigned before validation
Parameterize(s, nb, g) ==
    ValidateRendered(
        [s EXCEPT !._nb_obj_unrendered = nb,
                  !._nb_str_rendered =
                      nbformat_writes(parameterize_notebook(nb, s._params))], g)

\* _render, after the unrendered read r
RenderRead(r, g) ==
    IF Raised(r.out) THEN r
    ELSE Parameterize(r.self, Prepared(r.out.value), g)

\* _render: f is the file's text at the read of l.158, g at the read of
\* l.309
_render(self, f, g) == RenderRead(_read_nb_str_unrendered(self, f), g)

\* _render reaches the second read of the file: validation is on, the
\* language is not known from the extension, hot reload re-reads, and the
\* first read did not raise
RenderReadsTwice(self, f) ==
    /\ self._hot_reload
    /\ self.static_analysis
    /\ self._language = None
    /\ ~Raised(_read_nb_str_unrendered(self, f).out)

\* render
render(self, f, g, params) ==
    _render([self EXCEPT !._params = json_serializable_params(params)], f, g)

\* nb_str_rendered: "return self._nb_str_rendered" after _render
ReturnRendered(r) ==
    IF Raised(r.out) THEN r
    ELSE Outcome(r.self, Return(r.self._nb_str_rendered))

\* the nb_str_rendered property
nb_str_rendered(self, f, g) ==
    IF self._nb_str_rendered = NoneObj THEN Outcome(self, Raise("RuntimeError"))
    ELSE IF self._hot_reload THEN ReturnRendered(_render(self, f, g))
    ELSE Outcome(self, Return(self._nb_str_rendered))

\* nb_str_rendered reaches the second read of the file
StrReadsTwice(self, f) ==
    self._nb_str_rendered # NoneObj /\ RenderReadsTwice(self, f)

\* nb_obj_rendered: the assignment of _nb_obj_rendered from the text r
StoreRenderedObj(r) ==
    IF Raised(r.out) THEN r
    ELSE Outcome([r.self EXCEPT !._nb_obj_rendered = nbformat_reads(r.out.value)],
                 Return(nbformat_reads(r.out.value)))

\* the nb_obj_rendered property
nb_obj_rendered(self, f, g) ==
    IF self._nb_obj_rendered = NoneObj
    THEN StoreRenderedObj(nb_str_rendered(self, f, g))
    ELSE Outcome(self, Return(self._nb_obj_rendered))

\* nb_obj_rendered reaches the second read of the file
ObjReadsTwice(self, f) ==
    self._nb_obj_rendered = NoneObj /\ StrReadsTwice(self, f)

\* _post_init_validation
_post_init_validation(self) ==
    IF find_cell_with_tag(self._nb_obj_unrendered, "parameters")[1] = NoneObj
    THEN Raise("SourceInitializationError")
    ELSE Return(NoneObj)

\* _get_parameters_cell: cell.source, AttributeError when cell is None
CellSource(s, cell) ==
    IF cell = NoneObj THEN Outcome(s, Raise("AttributeError"))
    ELSE Outcome(s, Return(cell.source))

\* _get_parameters_cell, after the unrendered read r
ParametersCellSource(r) ==
    IF Raised(r.out) THEN r
    ELSE CellSource(r.self,
                    find_cell_with_tag(r.self._nb_obj_unrendered, "parameters")[1])

\* _get_parameters_cell
_get_parameters_cell(self, f) ==
    ParametersCellSource(_read_nb_str_unrendered(self, f))

\* the extractor registry: the languages it has an extractor for; it raises
\* for any other
extractor_class_for_language(lang) ==
    IF lang \in {"python", "r"} THEN Return(lang)
    ELSE Raise("NotImplementedError")

\* extract_upstream / extract_product, once self.language (l) is known: the
\* extractor class is looked up, then the parameters cell is read; g is the
\* file's text at that read.  The outcome is the text the extractor gets
ExtractWithLanguage(l, g) ==
    IF Raised(l.out) THEN l
    ELSE IF Raised(extractor_class_for_language(l.out.value))
    THEN Outcome(l.self, extractor_class_for_language(l.out.value))
    ELSE _get_parameters_cell(l.self, g)

\* extract_upstream / extract_product: f is the file's text when the
\* language property reads it (l.309), g when _get_parameters_cell does
extract_upstream(self, f, g) == ExtractWithLanguage(language(self, f), g)

\* extract_upstream reads the file twice: the language is not known from
\* the extension, hot reload re-reads, and the first read and the lookup of
\* the extractor did not raise
ExtractReadsTwice(self, f) ==
    /\ self._hot_reload
    /\ self._language = None
    /\ ~Raised(language(self, f).out)
    /\ ~Raised(extractor_class_for_language(language(self, f).out.value))

\* __init__, l.138-140: the initial read r, then the validation
InitValidated(r) ==
    IF Raised(r.out) THEN r
    ELSE Outcome(r.self, _post_init_validation(r.self))

\* __init__, l.108-127: the extension and the language
InitExt(s0, ext, f) ==
    InitValidated(_read_nb_str_unrendered(
        [s0 EXCEPT !._ext_in = ext, !._language = determine_language(ext)], f))

\* __init__, l.98-120: the checks of the arguments
InitArgs(s0, ext_in, f) ==
    IF s0._path = None /\ s0._hot_reload THEN Outcome(s0, Raise("ValueError"))
    ELSE IF s0._path = None /\ ext_in = None THEN Outcome(s0, Raise("ValueError"))
    ELSE IF s0._path # None /\ ext_in # None THEN Outcome(s0, Raise("ValueError"))
    ELSE IF s0._path # None THEN InitExt(s0, DropFirst(Suffix(s0._path)), f)
    ELSE InitExt(s0, ext_in, f)

\* __init__ reads the file twice: a Path is read at l.92 and, with hot
\* reload, again by the primitive property during the initial read (l.138);
\* the argument checks in between did not raise
InitReadsTwice(p, hot_reload, ext_in) ==
    p.kind = "Path" /\ hot_reload /\ ext_in = None

\* __init__.  p is the primitive: [kind, path, content] with kind "str",
\* "Path", "Placeholder" or anything else, content being the text read at
\* l.92 for a Path; f is the text of the file at p.path when the primitive
\* property reads it
__init__(p, hot_reload, ext_in, kernelspec_name, static, f) ==
    IF p.kind \notin {"Placeholder", "str", "Path"} THEN Outcome(Blank, Raise("TypeError"))
    ELSE InitArgs([Blank EXCEPT !._path = IF p.kind = "str" THEN None ELSE p.path,
                                !._primitive = p.content,
                                !.static_analysis = static,
                                !._kernelspec_name = kernelspec_name,
                                !._hot_reload = hot_reload],
                  ext_in, f)

-----------------------------------------------------------------------------
(* Input sets of the module-level functions *)

TagLists == {<<>>, <<"parameters">>, <<"other">>, <<"other", "parameters">>}

\* cells that differ in their tags (find_cell_with_tag)
TagCells ==
    {Cell(SrcProduct, t) : t \in TagLists}
        \cup {Cell(SrcAProduct, <<"parameters">>), UntaggedCell(SrcOne)}

\* cells that differ in their text (is_python, determine_kernel_name)
TextCells == {UntaggedCell(t) : t \in {SrcOne, SrcArrow, SrcBroken}}

\* cells of the documents given to check_notebook
CheckCells ==
    {Cell(SrcProduct, <<"parameters">>), Cell(SrcAProduct, <<"parameters">>)}
        \cup {UntaggedCell(t) : t \in {SrcOne, SrcArrow, SrcBroken, SrcImport}}

\* document metadata: none, complete, naming a kernel that is not
\* installed, and kernelspec records that lack an attribute
Metas ==
    {PlainMeta,
     WithKernelspec(PlainMeta, KernelspecFull("python3", "Python 3", "python")),
     WithKernelspec(PlainMeta, KernelspecFull("ir", "My R", "python")),
     WithKernelspec(PlainMeta, KernelspecFull("julia-1.5", "Julia", "julia")),
     WithKernelspec(PlainMeta, [language |-> "python"]),
     WithKernelspec(PlainMeta, [language |-> "R"]),
     WithKernelspec(PlainMeta, [display_name |-> "Python 3"])}

KernelNames == {None, "", "python3", "ir", "julia-1.5"}
Exts ==
    {None, "", "py", ".py", "r", ".r", "R", ".R", "Rmd", ".Rmd", "rmd", ".rmd",
     "ipynb", ".ipynb"}
Languages == {None, "python", "r"}
Tags == {"parameters", "other", "injected-parameters"}

\* parameters as given to check_notebook: name -> value
ParamSets ==
    {[k \in ks |-> 1] : ks \in SUBSET {"product", "a", "c"}}

Pending == [fn |-> "none"]
Done(fn, out) == [fn |-> fn, out |-> out]

\* the facade is not part of the function-level specifications
FacadeIdle ==
    /\ file = NoneObj
    /\ phase = "none"
    /\ _path = None
    /\ _primitive = NoneObj
    /\ _ext_in = None
    /\ _language = None
    /\ _kernelspec_name = None
    /\ _hot_reload = FALSE
    /\ static_analysis = FALSE
    /\ _params = NoneObj
    /\ _nb_str_unrendered = NoneObj
    /\ _nb_obj_unrendered = NoneObj
    /\ _nb_str_rendered = NoneObj
    /\ _nb_obj_rendered = NoneObj
    /\ last = [op |-> "none"]
    /\ hist = NoneObj

-----------------------------------------------------------------------------
(* SpecKernel: determine_language, is_python, determine_kernel_name and    *)
(* ensure_kernelspec applied to bounded inputs                             *)

InitKernel ==
    /\ args \in [nb : {Notebook(cs, m) : cs \in SeqsUpTo(TextCells, MaxCells), m \in Metas},
                  kernelspec_name : KernelNames,
                  ext : Exts,
                  language : Languages]
    /\ ret = Pending
    /\ nb_after = args.nb
    /\ FacadeIdle

CallDetermineLanguage ==
    /\ ret = Pending
    /\ args.ext # None
    /\ ret' = Done("determine_language", Return(determine_language(args.ext)))
    /\ UNCHANGED <<args, nb_after, facadeVars>>

CallIsPython ==
    /\ ret = Pending
    /\ ret' = Done("is_python", Return(is_python(args.nb)))
    /\ UNCHANGED <<args, nb_after, facadeVars>>

CallDetermineKernelName ==
    /\ ret = Pending
    /\ LET r == determine_kernel_name_via(args.nb, args.kernelspec_name,
                                          args.ext, args.language)
       IN ret' = [fn |-> "determine_kernel_name", out |-> Return(r.name), via |-> r.via]
    /\ UNCHANGED <<args, nb_after, facadeVars>>

CallEnsureKernelspec ==
    /\ ret = Pending
    /\ LET r == ensure_kernelspec(args.nb, args.kernelspec_name, args.ext, args.language)
       IN /\ ret' = Done("ensure_kernelspec", r.out)
          /\ nb_after' = r.nb
    /\ UNCHANGED <<args, facadeVars>>

NextKernel ==
    \/ CallDetermineLanguage
    \/ CallIsPython
    \/ CallDetermineKernelName
    \/ CallEnsureKernelspec

SpecKernel == InitKernel /\ [][NextKernel]_vars

-----------------------------------------------------------------------------
(* SpecCells: find_cell_with_tag and check_notebook applied to bounded      *)
(* inputs                                                                  *)

InitCells ==
    /\ \/ args \in [nb : {Notebook(cs, PlainMeta) : cs \in SeqsUpTo(TagCells, MaxCells + 1)},
                     tag : Tags]
       \/ args \in [nb : {Notebook(cs, PlainMeta) : cs \in SeqsUpTo(CheckCells, MaxCells)},
                     params : ParamSets]
    /\ ret = Pending
    /\ nb_after = args.nb
    /\ FacadeIdle

CallFindCellWithTag ==
    /\ ret = Pending
    /\ "tag" \in DOMAIN args
    /\ ret' = Done("find_cell_with_tag", Return(find_cell_with_tag(args.nb, args.tag)))
    /\ UNCHANGED <<args, nb_after, facadeVars>>

CallCheckNotebook ==
    /\ ret = Pending
    /\ "params" \in DOMAIN args
    /\ LET r == check_notebook(args.nb, args.params, "notebook")
       IN ret' = [fn |-> "check_notebook", out |-> r.out, warned |-> r.warned]
    /\ UNCHANGED <<args, nb_after, facadeVars>>

NextCells ==
    \/ CallFindCellWithTag
    \/ CallCheckNotebook

SpecCells == InitCells /\ [][NextCells]_vars

-----------------------------------------------------------------------------
(* Spec: the life of one NotebookSource and of its backing file            *)

\* number of times the backing file is rewritten
MaxEdits == 2

ParamsCellP == Cell(SrcProduct, <<"parameters">>)

\* the texts a file (or the string given to the constructor) may hold
FileDocs ==
    {RawText(nb) : nb \in
        {Notebook(<<ParamsCellP, UntaggedCell(SrcOne)>>, PlainMeta),
         Notebook(<<UntaggedCell(SrcOne)>>, PlainMeta),
         Notebook(<<ParamsCellP, UntaggedCell(SrcArrow)>>, PlainMeta),
         Notebook(<<ParamsCellP, UntaggedCell(SrcOne)>>,
                  WithKernelspec(PlainMeta, KernelspecFull("python3", "My Python", "Python"))),
         Notebook(<<ParamsCellP, UntaggedCell(SrcOne)>>,
                  WithKernelspec(PlainMeta, KernelspecFull("julia-1.5", "Julia", "julia")))}}

Paths == {"nb.py", "nb.ipynb"}

Primitives(f) ==
    {[kind |-> "str", path |-> None, content |-> f],
     [kind |-> "Placeholder", path |-> None, content |-> f],
     [kind |-> "bytes", path |-> None, content |-> f]}
        \cup {[kind |-> k, path |-> pth, content |-> f] :
                 k \in {"Path", "Placeholder"}, pth \in Paths}

\* the Params objects given to render: name -> value, always with a product
Product(path) == [path |-> path]
RenderParams ==
    {[product |-> Product("out.ipynb")],
     [product |-> Product("out.ipynb"), upstream |-> [up |-> Product("up.csv")]]}

CallIdle ==
    /\ args = NoneObj
    /\ ret = Pending
    /\ nb_after = NoneObj

Init ==
    /\ file \in FileDocs
    /\ phase = "new"
    /\ _path = Blank._path
    /\ _primitive = Blank._primitive
    /\ _ext_in = Blank._ext_in
    /\ _language = Blank._language
    /\ _kernelspec_name = Blank._kernelspec_name
    /\ _hot_reload = Blank._hot_reload
    /\ static_analysis = Blank.static_analysis
    /\ _params = Blank._params
    /\ _nb_str_unrendered = Blank._nb_str_unrendered
    /\ _nb_obj_unrendered = Blank._nb_obj_unrendered
    /\ _nb_str_rendered = Blank._nb_str_rendered
    /\ _nb_obj_rendered = Blank._nb_obj_rendered
    /\ last = [op |-> "none"]
    /\ hist = [rendered_ok |-> FALSE, edits |-> 0]
    /\ CallIdle

\* the texts the file may hold at a call's second read: somebody may have
\* rewritten it since the first
TextsAtSecondRead(twice) ==
    IF twice /\ hist.edits < MaxEdits THEN FileDocs ELSE {file}

\* the file after a call during which it came to hold g
Rewritten(g) ==
    /\ file' = g
    /\ hist' = [hist EXCEPT !.edits = IF g = file THEN @ ELSE @ + 1]

\* the object's fields after a call
Becomes(self) ==
    /\ _path' = self._path
    /\ _primitive' = self._primitive
    /\ _ext_in' = self._ext_in
    /\ _language' = self._language
    /\ _kernelspec_name' = self._kernelspec_name
    /\ _hot_reload' = self._hot_reload
    /\ static_analysis' = self.static_analysis
    /\ _params' = self._params
    /\ _nb_str_unrendered' = self._nb_str_unrendered
    /\ _nb_obj_unrendered' = self._nb_obj_unrendered
    /\ _nb_str_rendered' = self._nb_str_rendered
    /\ _nb_obj_rendered' = self._nb_obj_rendered

\* what a call leaves behind: the object's fields and the record of the call
Effect(r, call) ==
    /\ Becomes(r.self)
    /\ last' = call @@ [out |-> r.out]

\* the constructor's outcome: when it raises no object exists
Constructed(r, call) ==
    /\ IF Raised(r.out)
       THEN phase' = "failed" /\ Becomes(Blank)
       ELSE phase' = "ready" /\ Becomes(r.self)
    /\ last' = call @@ [out |-> r.out]

\* NotebookSource(primitive, hot_reload, ext_in, kernelspec_name,
\* static_analysis)
Construct ==
    /\ phase = "new"
    /\ \E p \in Primitives(file), hr \in BOOLEAN, ext \in {None, "py", "ipynb"},
          ks \in {None, "python3", "julia-1.5"}, sa \in BOOLEAN :
          \E g \in TextsAtSecondRead(InitReadsTwice(p, hr, ext)) :
              /\ Constructed(__init__(p, hr, ext, ks, sa, g),
                             [op |-> "__init__", primitive |-> p, hot_reload |-> hr,
                              ext_in |-> ext, kernelspec_name |-> ks])
              /\ Rewritten(g)
    /\ UNCHANGED callVars

\* render's outcome, and whether a render has ever returned
Rendered(r, call, g) ==
    /\ Effect(r, call)
    /\ file' = g
    /\ hist' = [rendered_ok |-> hist.rendered_ok \/ ~Raised(r.out),
                edits |-> IF g = file THEN hist.edits ELSE hist.edits + 1]

\* source.render(params)
Render ==
    /\ phase = "ready"
    /\ \E params \in RenderParams,
          g \in TextsAtSecondRead(RenderReadsTwice(Self, file)) :
          Rendered(render(Self, file, g, params),
                   [op |-> "render", params |-> params, text |-> file,
                    str_before |-> _nb_str_rendered,
                    obj_before |-> _nb_obj_rendered], g)
    /\ UNCHANGED <<phase, callVars>>

\* source.nb_str_rendered
ReadStrRendered ==
    /\ phase = "ready"
    /\ \E g \in TextsAtSecondRead(StrReadsTwice(Self, file)) :
          /\ Effect(nb_str_rendered(Self, file, g),
                    [op |-> "nb_str_rendered", text |-> file,
                     str_before |-> _nb_str_rendered])
          /\ Rewritten(g)
    /\ UNCHANGED <<phase, callVars>>

\* source.nb_obj_rendered
ReadObjRendered ==
    /\ phase = "ready"
    /\ \E g \in TextsAtSecondRead(ObjReadsTwice(Self, file)) :
          /\ Effect(nb_obj_rendered(Self, file, g),
                    [op |-> "nb_obj_rendered", text |-> file])
          /\ Rewritten(g)
    /\ UNCHANGED <<phase, callVars>>

\* source.primitive
ReadPrimitive ==
    /\ phase = "ready"
    /\ Effect(PrimitiveRead(primitive(Self, file)), [op |-> "primitive"])
    /\ UNCHANGED <<file, phase, hist, callVars>>

\* source.language
ReadLanguage ==
    /\ phase = "ready"
    /\ Effect(language(Self, file), [op |-> "language"])
    /\ UNCHANGED <<file, phase, hist, callVars>>

\* source.extract_upstream() / extract_product(), up to the extractor
GetParametersCell ==
    /\ phase = "ready"
    /\ \E g \in TextsAtSecondRead(ExtractReadsTwice(Self, file)) :
          /\ Effect(extract_upstream(Self, file, g),
                    [op |-> "extract_upstream", text |-> file])
          /\ Rewritten(g)
    /\ UNCHANGED <<phase, callVars>>

\* somebody rewrites the backing file
ChangeFile ==
    /\ phase = "ready"
    /\ _path # None
    /\ hist.edits < MaxEdits
    /\ \E f \in FileDocs \ {file} : file' = f
    /\ hist' = [hist EXCEPT !.edits = @ + 1]
    /\ last' = [op |-> "write_text"]
    /\ UNCHANGED <<phase, _path, _primitive, _ext_in, _language, _kernelspec_name,
                   _hot_reload, static_analysis, _params, _nb_str_unrendered,
                   _nb_obj_unrendered, _nb_str_rendered, _nb_obj_rendered,
                   callVars>>

Next ==
    \/ Construct
    \/ Render
    \/ ReadStrRendered
    \/ ReadObjRendered
    \/ ReadPrimitive
    \/ ReadLanguage
    \/ GetParametersCell
    \/ ChangeFile

Spec == Init /\ [][Next]_vars

-----------------------------------------------------------------------------
(* Properties of the module-level functions *)

PyExts == {"py", ".py"}
RExts == {"r", ".r", "R", ".R", "Rmd", ".Rmd", "rmd", ".rmd"}

\* the language that decides step 3: the extension's when an extension is
\* given (also when that is no language at all), else the argument
EffectiveLanguage(a) ==
    IF a.ext # None /\ a.ext # ""
    THEN (IF a.ext \in PyExts THEN "python" ELSE IF a.ext \in RExts THEN "r" ELSE None)
    ELSE a.language

DknCalled == ret.fn = "determine_kernel_name"

\* C1: determine_kernel_name applies a strict priority: a non-None explicit
\* name is returned unchanged; otherwise a name in the kernelspec metadata;
\* otherwise the language (re-derived from the extension whenever an
\* extension is given, also when it is inconclusive) maps python to
\* 'python3' and r to 'ir'; the content heuristic is consulted only when
\* none of these gives a name.
Thm_C1_KernelPriority ==
    DknCalled =>
        LET a == args
            v == ret.out.value
            hasName == /\ "kernelspec" \in DOMAIN a.nb.metadata
                       /\ "name" \in DOMAIN a.nb.metadata.kernelspec
        IN /\ ret.out.kind = "return"
           /\ a.kernelspec_name # None => v = a.kernelspec_name /\ ret.via = "explicit"
           /\ (a.kernelspec_name = None /\ hasName) =>
                  v = a.nb.metadata.kernelspec.name /\ ret.via = "metadata"
           /\ (a.kernelspec_name = None /\ ~hasName /\ EffectiveLanguage(a) = "python") =>
                  v = "python3" /\ ret.via = "language"
           /\ (a.kernelspec_name = None /\ ~hasName /\ EffectiveLanguage(a) = "r") =>
                  v = "ir" /\ ret.via = "language"
           /\ ret.via = "heuristic" <=>
                  (a.kernelspec_name = None /\ ~hasName /\ EffectiveLanguage(a) = None)
           /\ ret.via = "heuristic" => v \in {"python3", None}

\* C1 witness: no explicit name, no metadata name, an inconclusive extension
\* that replaces the language argument 'r': the answer is not 'ir'
Wit_C1 ==
    /\ DknCalled
    /\ args.kernelspec_name = None
    /\ "kernelspec" \notin DOMAIN args.nb.metadata
    /\ args.ext = "ipynb"
    /\ args.language = "r"
    /\ ret.via = "heuristic"
    /\ ret.out.value = "python3"

NotPythonText(nb) ==
    \/ \E i \in 1..Len(nb.cells) : nb.cells[i].source = SrcBroken
    \/ \E i \in 1..Len(nb.cells) : nb.cells[i].source = SrcArrow

\* C2 as stated: whenever resolution reaches the content heuristic, text
\* that fails to parse as Python, or that parses but contains '<-', resolves
\* to no kernel.
CE_C2_HeuristicAlwaysRejects ==
    (DknCalled /\ ret.via = "heuristic" /\ NotPythonText(args.nb))
        => ret.out.value = None

\* C2 amended: the same, for documents whose metadata states no kernelspec
\* language (a stated language is trusted and the text is not looked at).
Thm_C2_HeuristicRejects ==
    (/\ DknCalled
     /\ ret.via = "heuristic"
     /\ ~("kernelspec" \in DOMAIN args.nb.metadata
            /\ "language" \in DOMAIN args.nb.metadata.kernelspec)
     /\ NotPythonText(args.nb))
        => ret.out.value = None

\* C2 witness: the heuristic is reached with text that parses as Python and
\* contains '<-', and no kernel results
Wit_C2 ==
    /\ DknCalled
    /\ ret.via = "heuristic"
    /\ "kernelspec" \notin DOMAIN args.nb.metadata
    /\ args.nb.cells = <<UntaggedCell(SrcOne), UntaggedCell(SrcArrow)>>
    /\ ret.out.value = None

\* C8 as stated: whenever ensure_kernelspec fails, it fails with
\* SourceInitializationError, and the document's kernel metadata is not
\* written.
CE_C8_KernelFailureIsInitError ==
    (ret.fn = "ensure_kernelspec" /\ ret.out.kind = "raise")
        => /\ ret.out.exc = "SourceInitializationError"
           /\ nb_after = args.nb

CfnCalled == ret.fn = "check_notebook"
FindCalled == ret.fn = "find_cell_with_tag"

\* the cell carries the tag: a tags entry that contains it
Carries(c, tag) ==
    /\ "tags" \in DOMAIN c.metadata
    /\ \E k \in 1..Len(c.metadata.tags) : c.metadata.tags[k] = tag

HasParametersCell(nb) == \E i \in 1..Len(nb.cells) : Carries(nb.cells[i], "parameters")

FirstParametersCell(nb) ==
    nb.cells[CHOOSE i \in 1..Len(nb.cells) :
                /\ Carries(nb.cells[i], "parameters")
                /\ \A j \in 1..(i - 1) : ~Carries(nb.cells[j], "parameters")]

\* C9: on a document with a parameters cell, check_notebook returns True iff
\* the extra names, the checker's warnings and the checker's errors are all
\* empty; otherwise it raises one RenderError whose text carries every
\* finding; names declared but not supplied are only warned about.
Thm_C9_CheckNotebook ==
    (CfnCalled /\ HasParametersCell(args.nb)) =>
        LET declared == UsedNames(FirstParametersCell(args.nb).source)
            extra == DOMAIN args.params \ declared
            missing == declared \ DOMAIN args.params
            chk == check_source(args.nb, "notebook")
            clean == extra = {} /\ chk.warnings = <<>> /\ chk.errors = <<>>
        IN /\ ret.out = Return(TRUE) <=> clean
           /\ ~clean =>
                /\ ret.out.kind = "raise"
                /\ ret.out.exc = "RenderError"
                /\ extra # {} => InSeq(Fmt(extra), ret.out.message)
                /\ \A k \in 1..Len(chk.warnings) : InSeq(Str(chk.warnings[k]), ret.out.message)
                /\ \A k \in 1..Len(chk.errors) : InSeq(Str(chk.errors[k]), ret.out.message)
           /\ ret.warned = missing

\* C9 witness: the checker is silent and an undeclared name is supplied:
\* RenderError is raised on the extra name alone
Wit_C9 ==
    /\ CfnCalled
    /\ args.nb.cells = <<Cell(SrcAProduct, <<"parameters">>), UntaggedCell(SrcOne)>>
    /\ DOMAIN args.params = {"a", "c"}
    /\ ret.out.kind = "raise"
    /\ ret.out.exc = "RenderError"
    /\ ret.warned = {"product"}

\* C10: find_cell_with_tag returns the first cell (in document order) whose
\* tags contain the tag, with its index; (None, None) exactly when no cell
\* carries the tag; the document is left as it was.
Thm_C10_FindCell ==
    FindCalled =>
        LET cells == args.nb.cells
            r == ret.out.value
            hits == {i \in 1..Len(cells) : Carries(cells[i], args.tag)}
        IN /\ (r[2] = NoneIdx) <=> hits = {}
           /\ hits = {} => r = <<NoneObj, NoneIdx>>
           /\ hits # {} =>
                /\ r[2] + 1 \in hits
                /\ \A j \in hits : r[2] + 1 <= j
                /\ r[1] = cells[r[2] + 1]
           /\ nb_after = args.nb

\* C10 witness: two cells carry the tag, after one with an empty tag list;
\* the first of the two is returned
Wit_C10 ==
    /\ FindCalled
    /\ args.tag = "parameters"
    /\ args.nb.cells = <<Cell(SrcProduct, <<>>), Cell(SrcAProduct, <<"parameters">>),
                         Cell(SrcProduct, <<"other", "parameters">>)>>
    /\ ret.out.value = <<Cell(SrcAProduct, <<"parameters">>), 1>>

-----------------------------------------------------------------------------
(* Properties of the facade *)

\* the unrendered document the pipeline derives from text f under the
\* object's extension, language and kernel name
UnrenderedOf(f) ==
    ensure_kernelspec(f.text, _kernelspec_name, _ext_in, _language).nb

\* the rendering of text f with parameters params: tags normalised, the
\* parameters injected, serialised
RenderingOf(f, params) ==
    [json |-> parameterize_notebook(Prepared(UnrenderedOf(f)), params)]

\* C3: with hot reload, a read of the rendered text that returns has
\* re-read the backing file and returns the rendering, with the most
\* recently supplied parameters, of the content the file had when the read
\* was made (last.text), never of an earlier version; the object holds the
\* file's latest content as its primitive.
Thm_C3_HotReloadFresh ==
    (last.op = "nb_str_rendered" /\ _hot_reload /\ last.out.kind = "return") =>
        /\ _primitive = file
        /\ last.out.value = RenderingOf(last.text, _params)
        /\ _nb_str_rendered = last.out.value

\* C3 witness: the file was rewritten after the last render, and the read
\* returns a text that differs from the one cached before the read
Wit_C3 ==
    /\ last.op = "nb_str_rendered"
    /\ _hot_reload
    /\ last.out.kind = "return"
    /\ hist.edits > 0
    /\ last.str_before # last.out.value
    /\ last.out.value = RenderingOf(last.text, _params)

\* C4 as stated: with hot reload, the object nb_obj_rendered returns is the
\* parse of the rendering, with the current parameters, of the content the
\* file had when the read was made.
CE_C4_RenderedObjectFresh ==
    (last.op = "nb_obj_rendered" /\ _hot_reload /\ last.out.kind = "return") =>
        last.out.value = RenderingOf(last.text, _params).json

\* C5 as stated: while no call to render has returned without raising,
\* nb_str_rendered and nb_obj_rendered raise.
CE_C5_ReadBeforeRenderRaises ==
    (last.op \in {"nb_str_rendered", "nb_obj_rendered"} /\ ~hist.rendered_ok) =>
        last.out.kind = "raise"

\* C6 as stated: a render that raises RenderError leaves the rendered text
\* and the rendered object as they were before the call.
CE_C6_FailedRenderKeepsState ==
    (last.op = "render" /\ last.out.kind = "raise" /\ last.out.exc = "RenderError") =>
        /\ _nb_str_rendered = last.str_before
        /\ _nb_obj_rendered = last.obj_before

InitCalled == last.op = "__init__"
ValidKind == last.primitive.kind \in {"str", "Path", "Placeholder"}
GivenPath == IF last.primitive.kind = "str" THEN None ELSE last.primitive.path

\* the three argument errors of C7
HotReloadWithoutPath == last.hot_reload /\ GivenPath = None
ExtWithPath == GivenPath # None /\ last.ext_in # None
NoExtWithString == GivenPath = None /\ last.ext_in = None
BadArguments == HotReloadWithoutPath \/ ExtWithPath \/ NoExtWithString

\* the initial unrendered read succeeded (a kernel was resolved and found)
\* and left a document with no cell tagged 'parameters'
NoParametersAfterRead ==
    LET ext == IF GivenPath # None
               THEN (IF GivenPath = "nb.py" THEN "py" ELSE "ipynb")
               ELSE last.ext_in
        lang == IF ext = "py" THEN "python" ELSE None
        r == ensure_kernelspec(file.text, last.kernelspec_name, ext, lang)
    IN /\ r.out.kind = "return"
       /\ ~HasParametersCell(r.nb)

\* C7 as stated: in each of the four cases construction fails with
\* SourceInitializationError and no object is produced.
CE_C7_ConstructionErrors ==
    (InitCalled /\ ValidKind /\ (BadArguments \/ NoParametersAfterRead)) =>
        /\ last.out.kind = "raise"
        /\ last.out.exc = "SourceInitializationError"
        /\ phase = "failed"

\* the document's kernel-identity record is one entry of the catalog
KernelFromCatalog(nb) ==
    /\ "kernelspec" \in DOMAIN nb.metadata
    /\ DOMAIN nb.metadata.kernelspec = {"name", "display_name", "language"}
    /\ nb.metadata.kernelspec.name \in DOMAIN Catalog
    /\ nb.metadata.kernelspec.display_name =
           Catalog[nb.metadata.kernelspec.name].display_name
    /\ nb.metadata.kernelspec.language =
           Catalog[nb.metadata.kernelspec.name].language

\* C11: once the object exists (kernel resolution succeeded), the unrendered
\* document it holds, as object and as text, has a kernelspec whose name,
\* display name and language are those of one catalog entry, in every
\* state: after renders, after hot-reload re-reads (also failed ones), and
\* when the file's own kernelspec metadata disagrees with the catalog.
Thm_C11_KernelFromCatalog ==
    phase = "ready" =>
        /\ KernelFromCatalog(_nb_obj_unrendered)
        /\ KernelFromCatalog(_nb_str_unrendered.json)

\* C11 witness: hot reload has re-read a rewritten file whose kernelspec
\* names python3 with another display name and language; the document held
\* carries the catalog's
Wit_C11 ==
    /\ phase = "ready"
    /\ _hot_reload
    /\ last.op = "render"
    /\ hist.edits > 0
    /\ _primitive = file
    /\ "kernelspec" \in DOMAIN file.text.metadata
    /\ file.text.metadata.kernelspec.display_name = "My Python"
    /\ _nb_obj_unrendered.cells = Prepared(file.text).cells
    /\ _nb_obj_unrendered.metadata.kernelspec =
           KernelspecFull("python3", "Python 3", "python")

\* C12 as stated: on a document with no cell tagged 'parameters',
\* check_notebook raises RenderError.
CE_C12_NoParametersIsRenderError ==
    (CfnCalled /\ ~HasParametersCell(args.nb)) =>
        /\ ret.out.kind = "raise"
        /\ ret.out.exc = "RenderError"

\* C13 as stated: whenever render, or a re-render triggered by reading the
\* rendered text under hot reload, returns, the unrendered document it
\* rendered (the one read from the file's content at the call, last.text)
\* has a cell tagged 'parameters'.
CE_C13_RenderedHasParameters ==
    (/\ \/ last.op = "render"
        \/ last.op = "nb_str_rendered" /\ _hot_reload
     /\ last.out.kind = "return") =>
        HasParametersCell(UnrenderedOf(IF _hot_reload THEN last.text ELSE _primitive))

====
